---- MODULE Spec2Model ----
(***************************************************************************)
(* extendclass: extend(dog, animal) rewires dog.prototype so that it       *)
(* inherits from animal.prototype (src/index.js).                          *)
(*                                                                         *)
(* The state is the part of the JavaScript object graph the function and   *)
(* its documented callers touch: the objects (each with a [[Prototype]]    *)
(* link and own properties), and the `prototype` slot of every value that  *)
(* can be passed to extend.  Properties are ordinary writable data         *)
(* properties, as in the README's examples; the module is sloppy-mode      *)
(* CommonJS, so a write the engine refuses is ignored, not thrown.         *)
(***************************************************************************)
EXTENDS Naturals, Sequences, FiniteSets

\* ---------------------------------------------------------------- bounds
\* Most objects the heap may hold (four exist at the start).
MaxObjs == 5
\* The same in the runs that chain two calls (SpecLink) ...
MaxLinked == 6
\* ... and in the runs that only call extend and new (SpecRelink).
MaxRelinked == 7
\* Most member edits (F.prototype.x = v, delete F.prototype.x) in one run.
MaxEdits == 1

\* ---------------------------------------------------------------- values
\* The end of a prototype chain (Object.getPrototypeOf(Object.prototype)).
Null == 0
\* What reading a property that does not exist yields.
Undefined == 0

\* Constructor functions: each is created with a prototype slot.
\* A is the README's Animal, B its Dog, C a further class.
Ctors == {"A", "B", "C"}
\* "O" is an extensible object with no `prototype` property of its own
\* (an arrow function, a plain object).
Holders == Ctors \cup {"O"}
\* What a caller can pass: the above, undefined/null, or a primitive.
Args == Holders \cup {"undef", "prim"}

MemberNames == {"eat", "bark"}
Names == MemberNames \cup {"constructor"}
MemberVals == {"nom", "woof"}
Absent == "absent"

\* Object.prototype, the root every ordinary prototype delegates to.
ObjectProto == 1

VARIABLES
  heap,       \* Seq of objects: [proto |-> id or Null, own |-> [Names -> value]]
  prototype,  \* Holders -> object id, or Undefined when the slot is missing
  rex,        \* the instance the caller holds: [ctor, proto], ctor "none" at first
  made,       \* history, aligned with heap: how each object came to be
              \*   [by, dog, animal, base]: the call extend(dog, animal) that
              \*   created it and the object animal.prototype was then
  threw,      \* history: whether the most recent extend call threw
  edits       \* number of member edits so far (bounds the run)

vars == <<heap, prototype, rex, made, threw, edits>>

NoOwn == [n \in Names |-> Absent]

\* A function's initial prototype: { constructor: F }, delegating to
\* Object.prototype.
InitialPrototype(f) ==
  [proto |-> ObjectProto, own |-> [NoOwn EXCEPT !["constructor"] = f]]

\* The README's starting point: Animal.prototype.eat and (declared before
\* the call to extend) Dog.prototype.bark.
Init ==
  /\ heap = << [proto |-> Null, own |-> [NoOwn EXCEPT !["constructor"] = "Object"]],
               [InitialPrototype("A") EXCEPT !.own["eat"] = "nom"],
               [InitialPrototype("B") EXCEPT !.own["bark"] = "woof"],
               InitialPrototype("C") >>
  /\ prototype = [h \in Holders |->
                    CASE h = "A" -> 2 [] h = "B" -> 3 [] h = "C" -> 4
                      [] OTHER -> Undefined]
  /\ rex = [ctor |-> "none", proto |-> Null]
  /\ made = << [by |-> "init", dog |-> "Object", animal |-> "none", base |-> Null],
               [by |-> "init", dog |-> "A", animal |-> "none", base |-> ObjectProto],
               [by |-> "init", dog |-> "B", animal |-> "none", base |-> ObjectProto],
               [by |-> "init", dog |-> "C", animal |-> "none", base |-> ObjectProto] >>
  /\ threw = FALSE
  /\ edits = 0

\* ------------------------------------------------------- property lookup
\* [[Get]]: the own property if there is one, else the same lookup on the
\* [[Prototype]]; undefined at the end of the chain.  `fuel` bounds the walk.
RECURSIVE GetFrom(_, _, _, _)
GetFrom(h, o, n, fuel) ==
  IF o = Null \/ fuel = 0 THEN Absent
  ELSE IF h[o].own[n] # Absent THEN h[o].own[n]
  ELSE GetFrom(h, h[o].proto, n, fuel - 1)

Get(o, n) == GetFrom(heap, o, n, Len(heap))

\* The same lookup in the heap h (the heap after a step).
Lookup(h, o, n) == GetFrom(h, o, n, Len(h))

\* A lookup on an instance: the README's instances own only `legs`, so a
\* member is looked up on the instance's [[Prototype]].
GetOnInstance(r, n) == Get(r.proto, n)

\* The objects on o's prototype chain, o excluded.
RECURSIVE ChainFrom(_, _, _)
ChainFrom(h, o, fuel) ==
  IF o = Null \/ fuel = 0 \/ h[o].proto = Null THEN {}
  ELSE {h[o].proto} \cup ChainFrom(h, h[o].proto, fuel - 1)

\* Whether following [[Prototype]] from o reaches null.
RECURSIVE ReachesNull(_, _, _)
ReachesNull(h, o, fuel) ==
  IF o = Null THEN TRUE
  ELSE IF fuel = 0 THEN FALSE
  ELSE ReachesNull(h, h[o].proto, fuel - 1)

\* ---------------------------------------------------------------- extend
\* A variant that validates: a missing slot defaults to Object.prototype
\* (animal.prototype || Object.prototype).
GetPrototypeDefault(x) ==
  IF x \in Holders /\ prototype[x] # Undefined THEN prototype[x] ELSE ObjectProto

\* x.prototype as an rvalue: a primitive has no such property.
GetPrototype(x) == IF x \in Holders THEN prototype[x] ELSE Undefined

\* Object.create(p): a new object with no own properties whose
\* [[Prototype]] is p.
ObjectCreate(p) == [proto |-> p, own |-> NoOwn]

\* Line 15 throws a TypeError: animal is undefined/null, animal.prototype
\* is not an object (Object.create refuses it), or dog is undefined/null.
Throws15(dog, animal) ==
  \/ animal = "undef"
  \/ GetPrototype(animal) = Undefined
  \/ dog = "undef"

\* The members a for-in copy of o would carry: everything o resolves.
Resolved(o) == [n \in Names |-> IF n \in MemberNames THEN Get(o, n) ELSE Absent]

\* Variant: dog.prototype = animal.prototype (no fresh object).
AssignPrototypeAlias(dog, animal) ==
  IF dog \in Holders
  THEN [heap |-> heap, prototype |-> [prototype EXCEPT ![dog] = GetPrototype(animal)]]
  ELSE [heap |-> heap, prototype |-> prototype]

\* Variant: dog.prototype.__proto__ = animal.prototype (the old object is kept).
AssignPrototypeInPlace(dog, animal) ==
  IF dog \in Holders
  THEN [heap |-> [heap EXCEPT ![prototype[dog]].proto = GetPrototype(animal)],
        prototype |-> prototype]
  ELSE [heap |-> heap, prototype |-> prototype]

\* Variant: dog.prototype = {} (a fresh object that is not linked to animal's).
AssignPrototypeNoLink(dog, animal) ==
  IF dog \in Holders
  THEN [heap |-> Append(heap, ObjectCreate(ObjectProto)),
        prototype |-> [prototype EXCEPT ![dog] = Len(heap) + 1]]
  ELSE [heap |-> heap, prototype |-> prototype]

\* Variant: copy-time duplication, the members animal.prototype resolves are
\* copied onto a fresh object that delegates to Object.prototype.
AssignPrototypeCopy(dog, animal) ==
  IF dog \in Holders
  THEN [heap |-> Append(heap, [proto |-> ObjectProto,
                               own |-> Resolved(GetPrototype(animal))]),
        prototype |-> [prototype EXCEPT ![dog] = Len(heap) + 1]]
  ELSE [heap |-> heap, prototype |-> prototype]

\* Variant: the fresh object delegates to animal.prototype and also keeps
\* whatever dog.prototype resolved before (the links compose).
AssignPrototypeKeep(dog, animal) ==
  IF dog \in Holders
  THEN [heap |-> Append(heap, [proto |-> GetPrototype(animal),
                               own |-> Resolved(prototype[dog])]),
        prototype |-> [prototype EXCEPT ![dog] = Len(heap) + 1]]
  ELSE [heap |-> heap, prototype |-> prototype]

\* dog.prototype = Object.create(animal.prototype)
\* A write to a property of a primitive is ignored.
AssignPrototype(dog, animal) ==
  IF dog \in Holders
  THEN [heap |-> Append(heap, ObjectCreate(GetPrototype(animal))),
        prototype |-> [prototype EXCEPT ![dog] = Len(heap) + 1]]
  ELSE [heap |-> heap, prototype |-> prototype]

\* Line 16 throws a TypeError: dog.prototype reads undefined.
Throws16(s, dog) ==
  IF dog \in Holders THEN s.prototype[dog] = Undefined ELSE TRUE

\* Variant: line 16 left out.
SetConstructorSkip(s, dog) == s

\* dog.prototype.constructor = dog
SetConstructor(s, dog) ==
  [s EXCEPT !.heap[s.prototype[dog]].own["constructor"] = dog]

extend(dog, animal) ==
  LET s0 == [heap |-> heap, prototype |-> prototype]
      t15 == Throws15(dog, animal)
      s1 == IF t15 THEN s0 ELSE AssignPrototype(dog, animal)
      t16 == ~t15 /\ Throws16(s1, dog)
      s2 == IF t15 \/ t16 THEN s1 ELSE SetConstructor(s1, dog)
  IN /\ heap' = s2.heap
     /\ prototype' = s2.prototype
     /\ made' = IF Len(s2.heap) > Len(heap)
                THEN Append(made, [by |-> "extend", dog |-> dog, animal |-> animal,
                                   base |-> GetPrototype(animal)])
                ELSE made
     /\ threw' = (t15 \/ t16)
     /\ UNCHANGED <<rex, edits>>

\* ---------------------------------------------------------------- callers
\* F.prototype.name = value
SetMember(f, n, v) ==
  /\ prototype[f] # Undefined
  /\ edits < MaxEdits
  /\ heap[prototype[f]].own[n] # v
  /\ heap' = [heap EXCEPT ![prototype[f]].own[n] = v]
  /\ edits' = edits + 1
  /\ UNCHANGED <<prototype, rex, made, threw>>

\* delete F.prototype.name
DeleteMember(f, n) ==
  /\ prototype[f] # Undefined
  /\ edits < MaxEdits
  /\ heap[prototype[f]].own[n] # Absent
  /\ heap' = [heap EXCEPT ![prototype[f]].own[n] = Absent]
  /\ edits' = edits + 1
  /\ UNCHANGED <<prototype, rex, made, threw>>

\* rex = new F(): an object with no members of its own whose [[Prototype]]
\* is F.prototype at this moment.
NewInstance(f) ==
  /\ rex' = [ctor |-> f, proto |-> prototype[f]]
  /\ UNCHANGED <<heap, prototype, made, threw, edits>>

\* The documented use: both arguments are constructor functions.
Next ==
  \/ \E dog \in Ctors, animal \in Ctors :
       extend(dog, animal) /\ Len(heap') <= MaxObjs
  \/ \E f \in Ctors, n \in MemberNames, v \in MemberVals : SetMember(f, n, v)
  \/ \E f \in Ctors, n \in Names : DeleteMember(f, n)
  \/ \E f \in Ctors : NewInstance(f)

Spec == Init /\ [][Next]_vars

\* Any argument at all: extend validates nothing.
NextArgs ==
  \/ \E dog \in Args, animal \in Args :
       extend(dog, animal) /\ Len(heap') <= MaxObjs
  \/ \E f \in Holders : SetMember(f, "bark", "woof")
  \/ \E f \in Holders : DeleteMember(f, "constructor")

SpecArgs == Init /\ [][NextArgs]_vars

\* Chains of calls; the one member set along the way is the README's
\* F.prototype.bark.
NextLink ==
  \/ \E dog \in Ctors, animal \in Ctors :
       extend(dog, animal) /\ Len(heap') <= MaxLinked
  \/ \E f \in Ctors : SetMember(f, "bark", "woof")
  \/ \E f \in Ctors : NewInstance(f)

SpecLink == Init /\ [][NextLink]_vars

\* Still longer sequences of calls, with the members the README starts from.
NextRelink ==
  \/ \E dog \in Ctors, animal \in Ctors :
       extend(dog, animal) /\ Len(heap') <= MaxRelinked
  \/ \E f \in Ctors : NewInstance(f)

SpecRelink == Init /\ [][NextRelink]_vars

\* ============================================================== claims
Objs == DOMAIN heap

\* The object p is a prototype that a call extend(d, _) created.
ByExtend(p) == made[p].by = "extend"

\* The object that was animal.prototype when the call that created p ran.
BaseOf(p) == made[p].base

\* What `new f()` would resolve the name n to in the heap h with slots sl.
NewGet(h, sl, f, n) == Lookup(h, sl[f], n)

\* n is a member of the object a and of no other object.
OnlyOn(a, n) ==
  /\ heap[a].own[n] # Absent
  /\ \A o \in Objs \ {a} : heap[o].own[n] = Absent

\* ------------------------------------------------------------------ C1
\* C1: once extend(derived, base) has returned, a property that base's
\* prototype defines and derived's prototype does not is resolved, on
\* derived's prototype and on an instance of derived created after the call,
\* to the value it has on base's prototype.
C1_ChainDelegation ==
  \A p \in Objs : ByExtend(p) =>
    \A n \in Names :
      (heap[BaseOf(p)].own[n] # Absent /\ heap[p].own[n] = Absent) =>
        /\ Get(p, n) = heap[BaseOf(p)].own[n]
        /\ (rex.proto = p => GetOnInstance(rex, n) = heap[BaseOf(p)].own[n])

\* extend(B, A); rex = new B(): rex.eat is Animal.prototype.eat.
W1_InstanceResolvesBaseMember ==
  /\ ByExtend(prototype["B"])
  /\ BaseOf(prototype["B"]) = prototype["A"]
  /\ rex = [ctor |-> "B", proto |-> prototype["B"]]
  /\ heap[prototype["A"]].own["eat"] = "nom"
  /\ heap[prototype["B"]].own["eat"] = Absent
  /\ GetOnInstance(rex, "eat") = "nom"

\* ------------------------------------------------------------------ C2
\* C2: when extend(derived, base) returns, the constructor read from
\* derived's prototype is derived (and so not base, when the two differ),
\* whether or not base's prototype carries a constructor of its own.
C2_ConstructorIsDerived ==
  [][\A d \in Ctors, a \in Ctors :
       (extend(d, a) /\ ~threw') =>
         Lookup(heap', prototype'[d], "constructor") = d]_vars

\* B extends A while A.prototype.constructor is A: B.prototype.constructor
\* is B.
W2_ConstructorReset ==
  /\ ByExtend(prototype["B"])
  /\ made[prototype["B"]].dog = "B"
  /\ BaseOf(prototype["B"]) = prototype["A"]
  /\ heap[prototype["A"]].own["constructor"] = "A"
  /\ Get(prototype["B"], "constructor") = "B"
  /\ ~threw

\* ------------------------------------------------------------------ C3
\* C3: extend(derived, base) leaves base's prototype as it was: derived's
\* new prototype is an object that did not exist before (so it is not
\* base's prototype), the object that is base's prototype has the same own
\* properties after the call as before, base's slot is untouched when base
\* is not derived, and a member later set on derived's prototype changes
\* neither base's prototype nor what an instance of base resolves.
C3_BaseUntouched ==
  [][/\ \A d \in Ctors, a \in Ctors :
          (extend(d, a) /\ ~threw') =>
            /\ prototype'[d] \notin Objs
            /\ prototype'[d] # prototype[a]
            /\ heap'[prototype[a]] = heap[prototype[a]]
            /\ (a # d => prototype'[a] = prototype[a])
     /\ \A f \in Ctors, n \in MemberNames, v \in MemberVals :
          (SetMember(f, n, v) /\ ByExtend(prototype[f])) =>
            LET b == BaseOf(prototype[f]) IN
              /\ heap'[b] = heap[b]
              /\ Lookup(heap', b, n) = Lookup(heap, b, n)
              /\ (rex.proto = b =>
                    Lookup(heap', rex'.proto, n) = Lookup(heap, rex.proto, n))
    ]_vars

\* extend(B, A); B.prototype.bark = woof; rex = new A(): neither
\* A.prototype nor rex has bark.
W3_DerivedMemberNotOnBase ==
  /\ ByExtend(prototype["B"])
  /\ BaseOf(prototype["B"]) = prototype["A"]
  /\ prototype["B"] # prototype["A"]
  /\ heap[prototype["B"]].own["bark"] = "woof"
  /\ heap[prototype["A"]].own["bark"] = Absent
  /\ rex = [ctor |-> "A", proto |-> prototype["A"]]
  /\ GetOnInstance(rex, "bark") = Absent

\* ------------------------------------------------------------------ C4
\* The objects a lookup that starts at o visits in the heap h.
Visited(h, o) == {o} \cup ChainFrom(h, o, Len(h))

C5_ChainedLinkage ==
  /\ [](\A p \in Objs : (ByExtend(p) /\ ByExtend(BaseOf(p)) /\ rex.proto = p) =>
          LET pb == BaseOf(p)
              pa == BaseOf(pb)
          IN \A n \in MemberNames : heap[p].own[n] = Absent =>
               /\ heap[pb].own[n] # Absent =>
                    GetOnInstance(rex, n) = heap[pb].own[n]
               /\ (heap[pb].own[n] = Absent /\ heap[pa].own[n] # Absent) =>
                    GetOnInstance(rex, n) = heap[pa].own[n])
  /\ [][\A c \in Ctors, b \in Ctors :
          (extend(c, b) /\ ~threw' /\ ByExtend(prototype[b])) =>
            Lookup(heap', prototype'[c], "constructor") = c]_vars

\* extend(B, A); B.prototype.bark = woof; extend(C, B); rex = new C().
W5_TwoHops ==
  /\ ByExtend(prototype["C"]) /\ BaseOf(prototype["C"]) = prototype["B"]
  /\ ByExtend(prototype["B"]) /\ BaseOf(prototype["B"]) = prototype["A"]
  /\ made[prototype["A"]].by = "init"
  /\ rex = [ctor |-> "C", proto |-> prototype["C"]]
  /\ heap[prototype["B"]].own["bark"] = "woof"
  /\ GetOnInstance(rex, "eat") = "nom"
  /\ GetOnInstance(rex, "bark") = "woof"
  /\ GetOnInstance(rex, "constructor") = "C"

\* ------------------------------------------------------------------ C6
\* The step is a second call extend(d, b) on a type d whose prototype an
\* earlier call extend(d, a), a another type than b, created.
SecondExtend(d, b) ==
  /\ extend(d, b) /\ ~threw'
  /\ ByExtend(prototype[d])
  /\ made[prototype[d]].dog = d
  /\ made[prototype[d]].animal # b

\* C6 as stated (for D, A and B three different types): after
\* extend(D, A) then extend(D, B), D's prototype delegates to B's prototype
\* and a member only A's prototype defines is not resolved by a new instance
\* of D.
X6_LastCallWins ==
  [][\A d \in Ctors : \A b \in Ctors \ {d} :
       (SecondExtend(d, b) /\ made[prototype[d]].animal # d) =>
         /\ heap'[prototype'[d]].proto = prototype[b]
         /\ \A n \in MemberNames :
              OnlyOn(BaseOf(prototype[d]), n) =>
                NewGet(heap', prototype', d, n) = Absent]_vars

\* C6, amended: after extend(D, A) then extend(D, B), D's prototype is a
\* new object that delegates to B's prototype alone and resolves each member
\* exactly as B's prototype does (the links do not compose); a member only
\* A's prototype defines is therefore not resolved by a new instance of D
\* unless A's prototype is B's prototype or lies on its chain (B is D
\* itself, or B was extended from A).
C6_LastCallWins ==
  [][\A d \in Ctors, b \in Ctors :
       SecondExtend(d, b) =>
         /\ prototype'[d] \notin Objs
         /\ heap'[prototype'[d]].proto = prototype[b]
         /\ \A n \in MemberNames :
              /\ NewGet(heap', prototype', d, n) = Lookup(heap, prototype[b], n)
              /\ (OnlyOn(BaseOf(prototype[d]), n)
                    /\ BaseOf(prototype[d]) \notin Visited(heap, prototype[b])) =>
                   NewGet(heap', prototype', d, n) = Absent]_vars

\* extend(C, A); extend(C, B); rex = new C(): rex has B's bark and no eat.
W6_SecondLinkOnly ==
  /\ ByExtend(prototype["C"])
  /\ made[prototype["C"]].animal = "B"
  /\ BaseOf(prototype["C"]) = 3
  /\ \E q \in Objs : /\ q < prototype["C"]
                     /\ made[q] = [by |-> "extend", dog |-> "C", animal |-> "A",
                                   base |-> 2]
  /\ rex = [ctor |-> "C", proto |-> prototype["C"]]
  /\ heap[2].own["eat"] = "nom"
  /\ GetOnInstance(rex, "eat") = Absent
  /\ GetOnInstance(rex, "bark") = "woof"

\* ------------------------------------------------------------------ C7
\* C7: delegation happens at lookup time.  When a member is set (added or
\* changed) on, or deleted from, the object a call extend(derived, base)
\* linked as base's prototype, every prototype that call created, and every
\* instance of it, resolves the member to its current value on base's
\* prototype, provided derived's prototype has no such member of its own.
C7_LookupTimeDelegation ==
  [][\A f \in Ctors, n \in Names :
       \A p \in Objs :
         (ByExtend(p) /\ BaseOf(p) = prototype[f] /\ heap[p].own[n] = Absent) =>
           /\ \A v \in MemberVals :
                (n \in MemberNames /\ SetMember(f, n, v)) =>
                  /\ Lookup(heap', p, n) = v
                  /\ (rex.proto = p => Lookup(heap', rex'.proto, n) = v)
           /\ DeleteMember(f, n) =>
                /\ Lookup(heap', p, n) = Lookup(heap', heap[prototype[f]].proto, n)
                /\ Lookup(heap', p, n) = Lookup(heap', prototype[f], n)
                /\ (rex.proto = p =>
                      Lookup(heap', rex'.proto, n) = Lookup(heap', prototype[f], n))
    ]_vars

\* extend(B, A); rex = new B(); Animal.prototype.eat = woof: rex.eat is woof.
W7_ChangeSeenThroughLink ==
  /\ ByExtend(prototype["B"])
  /\ BaseOf(prototype["B"]) = prototype["A"]
  /\ made[prototype["A"]].by = "init"
  /\ edits = 1
  /\ heap[prototype["A"]].own["eat"] = "woof"
  /\ heap[prototype["B"]].own["eat"] = Absent
  /\ rex = [ctor |-> "B", proto |-> prototype["B"]]
  /\ GetOnInstance(rex, "eat") = "woof"

\* ------------------------------------------------------------------ C8
\* x has a prototype slot that holds an object.
HasSlot(x) == x \in Holders /\ prototype[x] # Undefined

\* C8 as stated: a call in which either argument lacks the prototype slot
\* fails, and a call that fails leaves the slots and the objects as they were.
X8_FailsWithoutSlot ==
  [][\A d \in Args, a \in Args :
       extend(d, a) =>
         /\ (~HasSlot(d) \/ ~HasSlot(a)) => threw'
         /\ threw' => (heap' = heap /\ prototype' = prototype)]_vars

\* C8, amended: extend validates nothing.  The call fails exactly when base
\* has no prototype slot holding an object or derived is undefined, null or
\* a primitive; a derived object that has no prototype slot is given one and
\* the call succeeds.  A call that fails leaves every slot and every object
\* as it was; a call that succeeds has done both things: the slot holds a
\* new object and that object's constructor is derived.
C8_NoPartialFailure ==
  [][\A d \in Args, a \in Args :
       extend(d, a) =>
         /\ threw' <=> (~HasSlot(a) \/ d \notin Holders)
         /\ threw' => (heap' = heap /\ prototype' = prototype)
         /\ ~threw' => /\ prototype'[d] \notin Objs
                       /\ heap'[prototype'[d]].proto = prototype[a]
                       /\ heap'[prototype'[d]].own["constructor"] = d
                       /\ \A o \in Objs : heap'[o] = heap[o]
                       /\ \A h \in Holders \ {d} : prototype'[h] = prototype[h]
    ]_vars

\* extend(O, A) succeeded and gave O a prototype slot; a later call threw.
W8_FailedCall ==
  /\ threw
  /\ prototype["O"] # Undefined
  /\ made[prototype["O"]] = [by |-> "extend", dog |-> "O", animal |-> "A",
                             base |-> 2]
  /\ heap[prototype["O"]].own["constructor"] = "O"

\* ------------------------------------------------------------------ C9
\* C9: the calls in the wrong order.  extend(C, B) has been called, so C's
\* prototype delegates to B's prototype, and extend(B, A) had not (A's
\* prototype is not on that chain); A, B and C are three types.  When
\* extend(B, A) now returns, C's prototype still delegates to the object
\* that was B's prototype, B's slot holds another object, a new instance of
\* C does not resolve a member only A's prototype defines, and a new
\* instance of B does.
C9_OrderMatters ==
  [][\A c \in Ctors : \A b \in Ctors \ {c} : \A a \in Ctors \ {b, c} :
       ( /\ extend(b, a) /\ ~threw'
         /\ heap[prototype[c]].proto = prototype[b]
         /\ prototype[a] \notin Visited(heap, prototype[b]) ) =>
           /\ prototype'[c] = prototype[c]
           /\ heap'[prototype'[c]].proto = prototype[b]
           /\ prototype'[b] # prototype[b]
           /\ \A n \in MemberNames : OnlyOn(prototype[a], n) =>
                /\ NewGet(heap', prototype', c, n) = Absent
                /\ NewGet(heap', prototype', b, n) = heap[prototype[a]].own[n]
    ]_vars

\* extend(C, B); extend(B, A); rex = new C(): rex.eat is undefined, though
\* B.prototype.eat is Animal.prototype.eat.
W9_WrongOrder ==
  /\ made[prototype["C"]] = [by |-> "extend", dog |-> "C", animal |-> "B",
                             base |-> 3]
  /\ made[prototype["B"]] = [by |-> "extend", dog |-> "B", animal |-> "A",
                             base |-> 2]
  /\ prototype["C"] < prototype["B"]
  /\ rex = [ctor |-> "C", proto |-> prototype["C"]]
  /\ heap[2].own["eat"] = "nom"
  /\ GetOnInstance(rex, "eat") = Absent
  /\ Get(prototype["B"], "eat") = "nom"

\* ----------------------------------------------------------------- C10
\* C10: whatever calls have been made, self-extension and mutual extension
\* included, every object's [[Prototype]] is null or an object created
\* before it, so every chain is finite, ends at null, and every lookup
\* terminates.
C10_ChainsAcyclic ==
  /\ \A o \in Objs :
       /\ heap[o].proto < o
       /\ o \notin ChainFrom(heap, o, Len(heap))
       /\ ReachesNull(heap, o, Len(heap))
  /\ rex.proto \in Objs \cup {Null}
  /\ \A h \in Ctors : prototype[h] \in Objs

\* extend(A, B) then extend(B, A), a mutual extension: B's prototype
\* delegates to A's, which delegates to the prototype B had before; then
\* extend(C, C), a self-extension.
W10_MutualAndSelfExtension ==
  /\ made[prototype["B"]] = [by |-> "extend", dog |-> "B", animal |-> "A",
                             base |-> prototype["A"]]
  /\ made[prototype["A"]] = [by |-> "extend", dog |-> "A", animal |-> "B",
                             base |-> 3]
  /\ ChainFrom(heap, prototype["B"], Len(heap)) = {prototype["A"], 3, ObjectProto}
  /\ made[prototype["C"]] = [by |-> "extend", dog |-> "C", animal |-> "C",
                             base |-> 4]
  /\ ChainFrom(heap, prototype["C"], Len(heap)) = {4, ObjectProto}

====
